---- MODULE Spec2Model ----
(***************************************************************************)
(* Webhook reconciliation core of the Polar payment integration:          *)
(* server/routes/webhooks.ts folded over the Payment and User collections *)
(* (server/models/Payment.ts, server/models/User.ts).                     *)
(*                                                                         *)
(* The store is two insertion-ordered collections.  A document's _id is   *)
(* its position in the collection.  Timestamps written with new Date()    *)
(* and display-only fields (names, currency, urls) are not represented.   *)
(***************************************************************************)
EXTENDS Integers, Sequences, FiniteSets, TLC

\* undefined / null / "" : every value that is falsy on the left of a JS `||`
NoVal == "none"

\* number of webhook deliveries explored in one behaviour
MaxDeliveries == 2

\* an absent number (amounts are integers of minor units)
NoAmount == 0 - 1

\* a || b on strings
Or(a, b) == IF a # NoVal THEN a ELSE b

\* a || b on numbers: 0 is falsy as well
OrNum(a, b) == IF a > 0 THEN a ELSE b

(***************************************************************************)
(* Provider-side objects the events talk about.  An event payload is a    *)
(* view of one of these objects, so two deliveries about the same object  *)
(* agree on its immutable attributes.                                     *)
(***************************************************************************)
ProductIds == {"prod_pro", "prod_ent", "prod_unknown"}

\* Product.findOne({ polarProductId }) -> tier, NoVal when no Product matches
ProductTier(pid) ==
    CASE pid = "prod_pro" -> "pro"
      [] pid = "prod_ent" -> "enterprise"
      [] OTHER -> NoVal

CustomerIds == {"k1", "k2"}

\* k1 was given an external id that is not its email; k2's email has capitals
CustEmail(k) == IF k = "k1" THEN "a@x.com" ELSE "B@x.com"
CustExt(k)   == IF k = "k1" THEN "user-1" ELSE NoVal

\* the `lowercase: true` setter of UserSchema.email
Lower(s) == IF s = "B@x.com" THEN "b@x.com" ELSE s

\* two checkouts of the same customer: co_1 is paid by ord_1, co_2 opens sub_1
CheckoutIds == {"co_1", "co_2"}
CheckoutCustomer(c) == "k1"
CheckoutProduct(c)  == IF c = "co_2" THEN "prod_ent" ELSE "prod_pro"
CheckoutAmount(c)   == 999
CheckoutNet(c)      == IF c = "co_2" THEN 500 ELSE NoAmount

OrderIds == {"ord_1", "ord_2"}
OrderCheckout(o) == IF o = "ord_1" THEN "co_1" ELSE NoVal
OrderCustomer(o) == IF o = "ord_1" THEN "k1" ELSE "k2"
OrderProduct(o)  == IF o = "ord_1" THEN "prod_pro" ELSE "prod_unknown"
OrderTotal(o)    == IF o = "ord_1" THEN 999 ELSE 500

SubscriptionIds == {"sub_1", "sub_2"}
SubCheckout(s) == IF s = "sub_1" THEN "co_2" ELSE NoVal
SubCustomer(s) == IF s = "sub_1" THEN "k1" ELSE "k2"
SubProduct(s)  == IF s = "sub_1" THEN "prod_ent" ELSE "prod_pro"

RefundIds == {"ref_1", "ref_2"}
RefundOrder(r) == IF r = "ref_1" THEN "ord_1" ELSE "ord_2"
\* data.amount: ref_1 refunds its order in full, ref_2 in part
RefundAmount(r) == IF r = "ref_1" THEN OrderTotal("ord_1") ELSE 200

\* which of the customer-identifying fields a payload carries
IdentityShapes == {"ext+email", "email", "nothing"}

ExtOf(k, shape)   == IF shape = "ext+email" THEN CustExt(k) ELSE NoVal
EmailOf(k, shape) == IF shape = "nothing" THEN NoVal ELSE CustEmail(k)

Event(type, id, ext, email, cust, product, checkout, order, status, amount, net, revoke) ==
    [type |-> type, id |-> id, ext |-> ext, email |-> email, cust |-> cust,
     product |-> product, checkout |-> checkout, order |-> order,
     status |-> status, amount |-> amount, net |-> net, revoke |-> revoke]

NoEvent ==
    Event(NoVal, NoVal, NoVal, NoVal, NoVal, NoVal, NoVal, NoVal, NoVal, NoAmount, NoAmount, FALSE)

\* data.id, data.externalCustomerId, data.customerEmail, data.customerId,
\* data.productId, data.status, data.amount, data.netAmount
CheckoutEvents(type, statuses) ==
    { Event(type, c, ExtOf(CheckoutCustomer(c), sh), EmailOf(CheckoutCustomer(c), sh),
            IF hasCust THEN CheckoutCustomer(c) ELSE NoVal,
            CheckoutProduct(c), NoVal, NoVal, st, CheckoutAmount(c), CheckoutNet(c), FALSE) :
        c \in CheckoutIds, sh \in IdentityShapes, hasCust \in BOOLEAN, st \in statuses }

\* data.id, data.checkoutId, data.customer.externalId, data.customer.email,
\* data.customerId, data.productId, data.totalAmount
OrderEvents(type) ==
    { Event(type, o, ExtOf(OrderCustomer(o), sh), EmailOf(OrderCustomer(o), sh),
            OrderCustomer(o), OrderProduct(o), OrderCheckout(o), NoVal, NoVal,
            OrderTotal(o), NoAmount, FALSE) :
        o \in OrderIds, sh \in IdentityShapes }

\* data.id, data.checkoutId, data.customer.*, data.customerId, data.productId,
\* data.amount, data.currentPeriodEnd (carried in status: "period" when present)
SubscriptionEvents(type) ==
    { Event(type, s, ExtOf(SubCustomer(s), sh), EmailOf(SubCustomer(s), sh),
            SubCustomer(s), SubProduct(s), SubCheckout(s), NoVal, "period",
            NoAmount, NoAmount, FALSE) :
        s \in SubscriptionIds, sh \in IdentityShapes }

\* data.id, data.orderId, data.amount, data.revokeBenefits
RefundEvents ==
    { Event("refund.created", r, NoVal, NoVal, NoVal, NoVal, NoVal, RefundOrder(r),
            NoVal, RefundAmount(r), NoAmount, rv) :
        r \in RefundIds, rv \in BOOLEAN }

\* data.id, data.externalId, data.email
CustomerEvents(type) ==
    { Event(type, k, ExtOf(k, sh), EmailOf(k, sh), NoVal, NoVal, NoVal, NoVal,
            NoVal, NoAmount, NoAmount, FALSE) :
        k \in CustomerIds, sh \in IdentityShapes }

(***************************************************************************)
(* State                                                                   *)
(***************************************************************************)
VARIABLES
    payments,       \* the Payment collection, in insertion order
    users,          \* the User collection, in insertion order
    webhookSecret,  \* process.env.POLAR_WEBHOOK_SECRET is set
    lastEvent,      \* payload of the most recent delivery
    lastSignature,  \* "valid", "invalid" or "missing" on the most recent delivery
    response,       \* HTTP status answered to the most recent delivery (0: none yet)
    effects,        \* collaborator calls made while handling the most recent delivery
    redelivered,    \* the most recent delivery repeated the verified event before it
    deliveries,     \* number of deliveries so far
    inflight        \* the requests being handled at once, each with what it holds

vars == <<payments, users, webhookSecret, lastEvent, lastSignature, response,
          effects, redelivered, deliveries, inflight>>

\* the two requests that may be in progress at the same time
Slots == {"A", "B"}

\* what a request holds between two awaits: the event, where it is (pc), the
\* index (found) of the document its last findOne returned with that copy's
\* owned list (seen) and customer id (seenCustomer), the documents it works on,
\* its calls, and its answer (0: none yet)
Idle ==
    [ev |-> NoEvent, pc |-> "idle", found |-> 0, seen |-> <<>>, seenCustomer |-> NoVal,
     user |-> 0, payment |-> 0, calls |-> {}, ok |-> TRUE, status |-> 0]

(***************************************************************************)
(* The store: Mongoose documents, queries and unique indexes               *)
(***************************************************************************)
Indexes(seq) == 1..Len(seq)

\* findOne: the first document in natural order that matches, 0 for null
FindFirst(seq, Match(_)) ==
    IF \E i \in Indexes(seq) : Match(seq[i])
    THEN CHOOSE i \in Indexes(seq) : Match(seq[i]) /\ \A j \in 1..(i - 1) : ~Match(seq[j])
    ELSE 0

\* new User({...}): email through the lowercase setter, tier defaults to free
NewUser(email, cust) ==
    [email |-> Lower(email), polarCustomerId |-> cust, subscriptionStatus |-> "free",
     subscriptionId |-> NoVal, subscriptionEndsAt |-> NoVal, payments |-> <<>>]

\* User.findOne({ email: key }): the query value goes through the same setter;
\* an undefined key matches no document because email is required
UserByEmail(U, key) ==
    IF key = NoVal THEN 0
    ELSE LET M(u) == u.email = Lower(key) IN FindFirst(U, M)

UserBySubscription(U, sid) ==
    LET M(u) == u.subscriptionId = sid IN FindFirst(U, M)

UserByCustomer(U, cid) ==
    LET M(u) == u.polarCustomerId = cid IN FindFirst(U, M)

\* the User collection without its index on polarCustomerId
UserDuplicateKey_emailOnly(U, i, u) ==
    \E j \in Indexes(U) : j # i /\ U[j].email = u.email

\* unique index on email; unique sparse index on polarCustomerId
UserDuplicateKey(U, i, u) ==
    \E j \in Indexes(U) :
        /\ j # i
        /\ \/ U[j].email = u.email
           \/ u.polarCustomerId # NoVal /\ U[j].polarCustomerId = u.polarCustomerId

\* user.save(): i = 0 inserts, otherwise document i is replaced; a duplicate key
\* rejects the write and the save throws
UserSave(U, i, u) ==
    IF UserDuplicateKey(U, i, u) THEN [u |-> U, ok |-> FALSE]
    ELSE IF i = 0 THEN [u |-> Append(U, u), ok |-> TRUE]
    ELSE [u |-> [U EXCEPT ![i] = u], ok |-> TRUE]

\* the paths of PaymentSchema
PaymentPaths ==
    {"checkoutId", "customerId", "customerEmail", "productId", "productName", "amount",
     "currency", "status", "eventType", "appName", "featureDate", "metadata"}

\* new Payment({ ..., path: value }): the schema is strict, so a key that is not
\* one of its paths is dropped and reads undefined afterwards
Stored(path, value) == IF path \in PaymentPaths THEN value ELSE NoAmount

NewPayment(checkoutId, cust, email, product, amount, status, eventType, orderId, subId) ==
    [checkoutId |-> checkoutId, customerId |-> cust, customerEmail |-> email,
     productId |-> product, amount |-> amount, status |-> status,
     eventType |-> eventType, order_id |-> orderId, subscription_id |-> subId,
     subscription_status |-> NoVal, refund_id |-> NoVal, refund_amount |-> NoAmount,
     paid |-> FALSE, checkout_status |-> NoVal, originalAmount |-> NoAmount]

PaymentByCheckout(P, cid) ==
    IF cid = NoVal THEN 0
    ELSE LET M(p) == p.checkoutId = cid IN FindFirst(P, M)

PaymentByOrder(P, oid) ==
    LET M(p) == p.order_id = oid IN FindFirst(P, M)

PaymentBySubscription(P, sid) ==
    LET M(p) == p.subscription_id = sid IN FindFirst(P, M)

\* the collection without its unique index
PaymentDuplicateKey_noIndex(P, i, p) == FALSE

\* unique index on checkoutId
PaymentDuplicateKey(P, i, p) ==
    \E j \in Indexes(P) : j # i /\ P[j].checkoutId = p.checkoutId

\* required: checkoutId, productId, amount
PaymentInvalid(p) ==
    p.checkoutId = NoVal \/ p.productId = NoVal \/ p.amount = NoAmount

\* payment.save(): validation, then the write
PaymentSave(P, i, p) ==
    IF PaymentInvalid(p) \/ PaymentDuplicateKey(P, i, p) THEN [p |-> P, ok |-> FALSE]
    ELSE IF i = 0 THEN [p |-> Append(P, p), ok |-> TRUE]
    ELSE [p |-> [P EXCEPT ![i] = p], ok |-> TRUE]

\* ids compared as objects, by reference: a stored reference is never found
Includes_byReference(list, id) == FALSE

\* user.payments.includes(payment._id)
Includes(list, id) == \E n \in 1..Len(list) : list[n] = id

(***************************************************************************)
(* Event handlers.  A handler is a chain of steps over a record of what   *)
(* it has done so far: the two collections as saved (p, u), the documents *)
(* it holds (user, payment: positions, 0 for null), the collaborator      *)
(* calls it made, and ok = FALSE once a save has thrown.  A step after a  *)
(* throw does nothing; writes saved before the throw stay saved.          *)
(***************************************************************************)
Begin(P, U) == [p |-> P, u |-> U, user |-> 0, payment |-> 0, calls |-> {}, ok |-> TRUE]

\* the outcome of `await user.save()` / `await payment.save()` joins the chain
AfterUserSave(s, saved) == [s EXCEPT !.u = saved.u, !.ok = saved.ok]
AfterPaymentSave(s, saved) == [s EXCEPT !.p = saved.p, !.ok = saved.ok]

\* ---- checkout.created ----
\* lines 119-134: find the user; create it, or link the customer id to it
checkoutCreatedUser(s, d, userIdentifier, found) ==
    IF found = 0 /\ userIdentifier # NoVal
    THEN AfterUserSave([s EXCEPT !.user = Len(s.u) + 1],
                       UserSave(s.u, 0, NewUser(userIdentifier, d.cust)))
    ELSE IF found # 0 /\ d.cust # NoVal
    THEN AfterUserSave([s EXCEPT !.user = found],
                       UserSave(s.u, found, [s.u[found] EXCEPT !.polarCustomerId = d.cust]))
    ELSE [s EXCEPT !.user = found]

\* the checkout's Payment is written over when it is already stored
checkoutCreatedPayment_upsert(s, d, userIdentifier) ==
    IF ~s.ok THEN s
    ELSE AfterPaymentSave([s EXCEPT !.payment = Len(s.p) + 1],
           PaymentSave(s.p, PaymentByCheckout(s.p, d.id),
             [NewPayment(d.id, d.cust, Or(d.email, userIdentifier), d.product,
                         OrNum(d.net, OrNum(d.amount, 0)),
                         "pending", "checkout.created", NoVal, NoVal)
                EXCEPT !.originalAmount = Stored("originalAmount", d.amount)]))

\* lines 150-178: a new pending Payment
checkoutCreatedPayment(s, d, userIdentifier) ==
    IF ~s.ok THEN s
    ELSE AfterPaymentSave([s EXCEPT !.payment = Len(s.p) + 1],
           PaymentSave(s.p, 0,
             [NewPayment(d.id, d.cust, Or(d.email, userIdentifier), d.product,
                         OrNum(d.net, OrNum(d.amount, 0)),
                         "pending", "checkout.created", NoVal, NoVal)
                EXCEPT !.originalAmount = Stored("originalAmount", d.amount)]))

\* lines 188-192: user.payments.push(payment._id)
checkoutCreatedLink(s) ==
    IF ~s.ok \/ s.user = 0 THEN s
    ELSE AfterUserSave(s,
           UserSave(s.u, s.user, [s.u[s.user] EXCEPT !.payments = Append(@, s.payment)]))

checkoutCreatedFrom(s, d, userIdentifier) ==
    checkoutCreatedLink(
      checkoutCreatedPayment(
        checkoutCreatedUser(s, d, userIdentifier, UserByEmail(s.u, userIdentifier)),
        d, userIdentifier))

handleCheckoutCreated(P, U, d) == checkoutCreatedFrom(Begin(P, U), d, Or(d.ext, d.email))

\* ---- checkout.updated ----
\* data.discountAmount: what the provider took off the gross amount
DiscountAmount(d) == IF d.net # NoAmount THEN d.amount - d.net ELSE 0

\* a provider status other than confirmed marks the Payment failed
checkoutUpdatedPayment_marksFailed(s, d, i) ==
    IF i = 0 THEN s
    ELSE AfterPaymentSave([s EXCEPT !.payment = i],
           PaymentSave(s.p, i,
             [s.p[i] EXCEPT
                !.status = IF d.status = "confirmed" THEN "completed" ELSE "failed",
                !.customerEmail = Or(d.email, @),
                !.customerId = Or(d.cust, @),
                !.amount = IF DiscountAmount(d) # 0
                           THEN OrNum(d.net, OrNum(d.amount, @)) ELSE @,
                !.checkout_status = d.status]))

\* the status is set to completed whatever the provider status is
checkoutUpdatedPayment_anyStatus(s, d, i) ==
    IF i = 0 THEN s
    ELSE AfterPaymentSave([s EXCEPT !.payment = i],
           PaymentSave(s.p, i,
             [s.p[i] EXCEPT
                !.status = "completed",
                !.customerEmail = Or(d.email, @),
                !.customerId = Or(d.cust, @),
                !.amount = IF DiscountAmount(d) # 0
                           THEN OrNum(d.net, OrNum(d.amount, @)) ELSE @,
                !.checkout_status = d.status]))

\* the Payment schema has no discountAmount path, so payment.discountAmount reads
\* undefined and any non-zero data.discountAmount differs from it
checkoutUpdatedPayment(s, d, i) ==
    IF i = 0 THEN s
    ELSE AfterPaymentSave([s EXCEPT !.payment = i],
           PaymentSave(s.p, i,
             [s.p[i] EXCEPT
                !.status = IF d.status = "confirmed" THEN "completed" ELSE @,
                !.customerEmail = Or(d.email, @),
                !.customerId = Or(d.cust, @),
                !.amount = IF DiscountAmount(d) # 0
                           THEN OrNum(d.net, OrNum(d.amount, @)) ELSE @,
                !.checkout_status = d.status]))

handleCheckoutUpdated(P, U, d) ==
    checkoutUpdatedPayment(Begin(P, U), d, PaymentByCheckout(P, d.id))

\* ---- order.created ----
\* lines 245-275: complete the Payment of the checkout, or create a completed one
orderCreatedPayment(s, d, found) ==
    IF found = 0
    THEN AfterPaymentSave([s EXCEPT !.payment = Len(s.p) + 1],
           PaymentSave(s.p, 0,
             NewPayment(Or(d.checkout, d.id), d.cust, d.email, d.product,
                        d.amount, "completed", "order.created", d.id, NoVal)))
    ELSE AfterPaymentSave([s EXCEPT !.payment = found],
           PaymentSave(s.p, found,
             [s.p[found] EXCEPT !.status = "completed",
                                !.eventType = "order.created",
                                !.amount = d.amount,
                                !.order_id = d.id]))

\* the Payment reference is pushed without looking for it first
orderCreatedGrant_blindPush(s, d, user, tier) ==
    IF user = 0 \/ tier = NoVal THEN [s EXCEPT !.user = user]
    ELSE AfterUserSave([s EXCEPT !.user = user],
           UserSave(s.u, user,
             [s.u[user] EXCEPT
                !.subscriptionStatus = tier,
                !.polarCustomerId = d.cust,
                !.payments = Append(@, s.payment)]))

\* lines 281-291: the tier of the Product, the customer id, the Payment reference
orderCreatedGrant(s, d, user, tier) ==
    IF user = 0 \/ tier = NoVal THEN [s EXCEPT !.user = user]
    ELSE AfterUserSave([s EXCEPT !.user = user],
           UserSave(s.u, user,
             [s.u[user] EXCEPT
                !.subscriptionStatus = tier,
                !.polarCustomerId = d.cust,
                !.payments = IF Includes(@, s.payment) THEN @ ELSE Append(@, s.payment)]))

\* a User that is not found is raised as an error instead of being logged
orderCreatedUser_throwsOnMiss(s, d) ==
    IF ~s.ok THEN s
    ELSE IF UserByEmail(s.u, Or(Or(d.ext, d.email), s.p[s.payment].customerEmail)) = 0
    THEN [s EXCEPT !.ok = FALSE]
    ELSE orderCreatedGrant(s, d,
           UserByEmail(s.u, Or(Or(d.ext, d.email), s.p[s.payment].customerEmail)),
           ProductTier(d.product))

\* lines 277-279: externalId, then email, then the Payment's stored email
orderCreatedUser(s, d) ==
    IF ~s.ok THEN s
    ELSE orderCreatedGrant(s, d,
           UserByEmail(s.u, Or(Or(d.ext, d.email), s.p[s.payment].customerEmail)),
           ProductTier(d.product))

\* lines 298-310: generateInvoice in its own try/catch, whatever it answers
orderCreatedInvoice(s, d) ==
    IF ~s.ok THEN s ELSE [s EXCEPT !.calls = @ \cup {<<"generateInvoice", d.id>>}]

\* the Payment is looked up by the customer instead of by the checkout
handleOrderCreated_byCustomer(P, U, d) ==
    LET M(p) == p.customerId = d.cust
    IN  orderCreatedInvoice(
          orderCreatedUser(
            orderCreatedPayment(Begin(P, U), d, FindFirst(P, M)), d), d)

handleOrderCreated(P, U, d) ==
    orderCreatedInvoice(
      orderCreatedUser(
        orderCreatedPayment(Begin(P, U), d, PaymentByCheckout(P, d.checkout)), d), d)

\* ---- subscription.created ----
subscriptionCreatedPayment(s, d) ==
    AfterPaymentSave([s EXCEPT !.payment = Len(s.p) + 1],
      PaymentSave(s.p, 0,
        NewPayment(Or(d.checkout, d.id), d.cust, d.email, d.product,
                   OrNum(d.amount, 0), "completed", "subscription.created",
                   NoVal, d.id)))

subscriptionCreatedGrant(s, d, user, tier) ==
    IF ~s.ok THEN s
    ELSE IF user = 0 \/ tier = NoVal THEN [s EXCEPT !.user = user]
    ELSE AfterUserSave([s EXCEPT !.user = user],
           UserSave(s.u, user,
             [s.u[user] EXCEPT
                !.subscriptionStatus = tier,
                !.subscriptionId = d.id,
                !.polarCustomerId = d.cust,
                !.subscriptionEndsAt = d.status,
                !.payments = IF Includes(@, s.payment) THEN @ ELSE Append(@, s.payment)]))

handleSubscriptionCreated(P, U, d) ==
    subscriptionCreatedGrant(subscriptionCreatedPayment(Begin(P, U), d), d,
                             UserByEmail(U, Or(d.ext, d.email)), ProductTier(d.product))

\* ---- subscription.updated ----
subscriptionUpdatedUser(s, d, user, tier) ==
    IF user = 0 \/ tier = NoVal THEN [s EXCEPT !.user = user]
    ELSE AfterUserSave([s EXCEPT !.user = user],
           UserSave(s.u, user,
             [s.u[user] EXCEPT !.subscriptionStatus = tier,
                               !.subscriptionEndsAt = d.status]))

handleSubscriptionUpdated(P, U, d) ==
    subscriptionUpdatedUser(Begin(P, U), d, UserBySubscription(U, d.id),
                            ProductTier(d.product))

\* ---- subscription.canceled ----
\* the cancellation is written to the Payment's status as well
subscriptionCanceledPayment_flipsStatus(s, i) ==
    IF i = 0 THEN s
    ELSE AfterPaymentSave([s EXCEPT !.payment = i],
           PaymentSave(s.p, i, [s.p[i] EXCEPT !.status = "failed",
                                              !.subscription_status = "canceled"]))

\* lines 381-392: annotate the Payment that stores the subscription id
subscriptionCanceledPayment(s, i) ==
    IF i = 0 THEN s
    ELSE AfterPaymentSave([s EXCEPT !.payment = i],
           PaymentSave(s.p, i, [s.p[i] EXCEPT !.subscription_status = "canceled"]))

\* the tier is reset but the subscription id stays on the user
subscriptionCanceledUser_keepsId(s, user) ==
    IF ~s.ok \/ user = 0 THEN s
    ELSE AfterUserSave([s EXCEPT !.user = user],
           UserSave(s.u, user, [s.u[user] EXCEPT !.subscriptionStatus = "free"]))

\* lines 395-402: the user holding the subscription goes back to free
subscriptionCanceledUser(s, user) ==
    IF ~s.ok \/ user = 0 THEN s
    ELSE AfterUserSave([s EXCEPT !.user = user],
           UserSave(s.u, user,
             [s.u[user] EXCEPT !.subscriptionStatus = "free",
                               !.subscriptionId = NoVal,
                               !.subscriptionEndsAt = NoVal]))

handleSubscriptionCanceled(P, U, d) ==
    subscriptionCanceledUser(
      subscriptionCanceledPayment(Begin(P, U), PaymentBySubscription(P, d.id)),
      UserBySubscription(U, d.id))

\* ---- order.paid ----
\* the status is set but the provenance is left as it was
orderPaidPayment_keepsEventType(s, i) ==
    IF i = 0 THEN s
    ELSE AfterPaymentSave([s EXCEPT !.payment = i],
           PaymentSave(s.p, i, [s.p[i] EXCEPT !.status = "completed", !.paid = TRUE]))

\* lines 411-423
orderPaidPayment(s, i) ==
    IF i = 0 THEN s
    ELSE AfterPaymentSave([s EXCEPT !.payment = i],
           PaymentSave(s.p, i, [s.p[i] EXCEPT !.status = "completed",
                                              !.eventType = "order.paid",
                                              !.paid = TRUE]))

\* a paid order of a product the catalog does not know grants the top tier
orderPaidUser_anyProduct(s, d, user, tier) ==
    IF ~s.ok \/ user = 0 THEN s
    ELSE AfterUserSave([s EXCEPT !.user = user],
           UserSave(s.u, user,
             [s.u[user] EXCEPT !.subscriptionStatus = Or(tier, "enterprise"),
                               !.polarCustomerId = d.cust]))

\* lines 426-437
orderPaidUser(s, d, user, tier) ==
    IF ~s.ok THEN s
    ELSE IF user = 0 \/ tier = NoVal THEN [s EXCEPT !.user = user]
    ELSE IF s.u[user].subscriptionStatus = tier THEN [s EXCEPT !.user = user]
    ELSE AfterUserSave([s EXCEPT !.user = user],
           UserSave(s.u, user,
             [s.u[user] EXCEPT !.subscriptionStatus = tier,
                               !.polarCustomerId = d.cust]))

handleOrderPaid(P, U, d) ==
    orderPaidUser(orderPaidPayment(Begin(P, U), PaymentByOrder(P, d.id)), d,
                  UserByEmail(U, Or(d.ext, d.email)), ProductTier(d.product))

\* ---- customer.created ----
customerCreatedUser(s, d, userIdentifier, user) ==
    IF user = 0 /\ userIdentifier # NoVal
    THEN AfterUserSave([s EXCEPT !.user = Len(s.u) + 1],
                       UserSave(s.u, 0, NewUser(userIdentifier, d.id)))
    ELSE IF user # 0 /\ s.u[user].polarCustomerId = NoVal
    THEN AfterUserSave([s EXCEPT !.user = user],
                       UserSave(s.u, user, [s.u[user] EXCEPT !.polarCustomerId = d.id]))
    ELSE [s EXCEPT !.user = user]

customerCreatedFrom(s, d, userIdentifier) ==
    customerCreatedUser(s, d, userIdentifier, UserByEmail(s.u, userIdentifier))

handleCustomerCreated(P, U, d) == customerCreatedFrom(Begin(P, U), d, Or(d.ext, d.email))

\* ---- customer.updated ----
\* user.email = data.email runs the lowercase setter (the name is not represented)
customerUpdatedUser(s, d, user) ==
    IF user = 0 THEN s
    ELSE AfterUserSave([s EXCEPT !.user = user],
           UserSave(s.u, user,
             [s.u[user] EXCEPT
                !.email = IF d.email # NoVal /\ d.email # @ THEN Lower(d.email) ELSE @]))

handleCustomerUpdated(P, U, d) ==
    customerUpdatedUser(Begin(P, U), d, UserByCustomer(U, d.id))

\* ---- customer.state_changed ----
\* looks the user up and only logs
handleCustomerStateChanged(P, U, d) ==
    [Begin(P, U) EXCEPT !.user = UserByCustomer(U, d.id)]

\* ---- order.updated ----
\* data.isInvoiceGenerated is carried in status ("invoice" when set); the invoice
\* fetch and the email sit in one try/catch
orderUpdatedInvoice(s, d, i) ==
    IF d.status # "invoice" THEN s
    ELSE [s EXCEPT !.calls =
            {<<"invoice", d.id>>} \cup
            (IF i # 0 /\ s.p[i].customerEmail # NoVal
             THEN {<<"sendInvoiceEmail", d.id>>} ELSE {})]

\* the order's Payment is rewritten to name the update as its last event
handleOrderUpdated_touchesPayment(P, U, d) ==
    IF PaymentByOrder(P, d.id) = 0
    THEN orderUpdatedInvoice(Begin(P, U), d, PaymentByOrder(P, d.id))
    ELSE orderUpdatedInvoice(
           AfterPaymentSave(Begin(P, U),
             PaymentSave(P, PaymentByOrder(P, d.id),
               [P[PaymentByOrder(P, d.id)] EXCEPT !.eventType = "order.updated"])),
           d, PaymentByOrder(P, d.id))

handleOrderUpdated(P, U, d) ==
    orderUpdatedInvoice(Begin(P, U), d, PaymentByOrder(P, d.id))

\* ---- refund.created ----
\* the refunded amount is taken off the Payment's amount
refundCreatedPayment_deductsAmount(s, d, i) ==
    IF i = 0 THEN s
    ELSE AfterPaymentSave([s EXCEPT !.payment = i],
           PaymentSave(s.p, i, [s.p[i] EXCEPT !.status = "refunded",
                                              !.amount = @ - d.amount,
                                              !.refund_id = d.id,
                                              !.refund_amount = d.amount]))

\* the refund flips the status and stores nothing about itself
refundCreatedPayment_statusOnly(s, d, i) ==
    IF i = 0 THEN s
    ELSE AfterPaymentSave([s EXCEPT !.payment = i],
           PaymentSave(s.p, i, [s.p[i] EXCEPT !.status = "refunded"]))

\* lines 543-555
refundCreatedPayment(s, d, i) ==
    IF i = 0 THEN s
    ELSE AfterPaymentSave([s EXCEPT !.payment = i],
           PaymentSave(s.p, i, [s.p[i] EXCEPT !.status = "refunded",
                                              !.refund_id = d.id,
                                              !.refund_amount = d.amount]))

\* lines 559-568: the user is looked up by the Payment's stored email
refundCreatedRevoke(s, user) ==
    IF user = 0 THEN s
    ELSE AfterUserSave([s EXCEPT !.user = user],
           UserSave(s.u, user,
             [s.u[user] EXCEPT !.subscriptionStatus = "free",
                               !.subscriptionId = NoVal,
                               !.subscriptionEndsAt = NoVal]))

refundCreatedUser(s, d) ==
    IF ~s.ok \/ s.payment = 0 \/ ~d.revoke THEN s
    ELSE refundCreatedRevoke(s, UserByEmail(s.u, s.p[s.payment].customerEmail))

\* lines 571-580
refundCreatedEmail(s, d) ==
    IF ~s.ok \/ s.payment = 0 THEN s
    ELSE IF s.p[s.payment].customerEmail = NoVal THEN s
    ELSE [s EXCEPT !.calls = @ \cup {<<"sendRefundEmail", d.order>>}]

handleRefundCreated(P, U, d) ==
    refundCreatedEmail(
      refundCreatedUser(
        refundCreatedPayment(Begin(P, U), d, PaymentByOrder(P, d.order)), d), d)

(***************************************************************************)
(* The endpoint: POST /polar                                               *)
(***************************************************************************)
\* the payloads that carry the customer's email and nothing else to find the user by
EmailOnly(events) == { e \in events : e.email # NoVal /\ e.ext = NoVal }

CheckoutCreatedEvents == CheckoutEvents("checkout.created", {"open"})
\* the handler reads customerEmail and customerId, never the external id
CheckoutUpdatedEvents ==
    { e \in CheckoutEvents("checkout.updated", {"open", "confirmed"}) : e.ext = NoVal }
OrderCreatedEvents    == OrderEvents("order.created")
OrderPaidEvents       == OrderEvents("order.paid")
\* read by their handlers for data.id (and isInvoiceGenerated) alone
OrderUpdatedEvents ==
    { [e EXCEPT !.status = st] :
        e \in EmailOnly(OrderEvents("order.updated")), st \in {NoVal, "invoice"} }
\* the same payloads naming a product that is not in the catalog
UnknownProduct(events) == { [e EXCEPT !.product = "prod_unknown"] : e \in EmailOnly(events) }
\* sub_2 is also seen sold for a product the catalog does not know
SubscriptionCreatedEvents ==
    SubscriptionEvents("subscription.created") \cup
    { e \in UnknownProduct(SubscriptionEvents("subscription.created")) : e.id = "sub_2" }
\* the handler finds its User by data.id alone; a plan change may name any product
SubscriptionUpdatedEvents ==
    EmailOnly(SubscriptionEvents("subscription.updated")) \cup
    UnknownProduct(SubscriptionEvents("subscription.updated"))
SubscriptionCanceledEvents == SubscriptionEvents("subscription.canceled")
CustomerCreatedEvents      == CustomerEvents("customer.created")
CustomerUpdatedEvents      == CustomerEvents("customer.updated")
CustomerStateChangedEvents == EmailOnly(CustomerEvents("customer.state_changed"))
\* event types the switch has no case for
UnhandledEvents ==
    EmailOnly(OrderEvents("order.refunded")) \cup EmailOnly(CustomerEvents("customer.deleted"))

HandledEvents ==
    CheckoutCreatedEvents \cup CheckoutUpdatedEvents \cup OrderCreatedEvents \cup
    OrderPaidEvents \cup OrderUpdatedEvents \cup SubscriptionCreatedEvents \cup
    SubscriptionUpdatedEvents \cup SubscriptionCanceledEvents \cup
    CustomerCreatedEvents \cup CustomerUpdatedEvents \cup
    CustomerStateChangedEvents \cup RefundEvents

AllEvents == HandledEvents \cup UnhandledEvents

Signatures == {"valid", "invalid", "missing"}

\* the debugging bypass: a delivery without a signature is let through
verifyPolarWebhook_bypass(signature, secret) ==
    IF ~secret THEN FALSE ELSE signature \in {"valid", "missing"}

\* TRUE when the event is returned, FALSE when verification throws
verifyPolarWebhook(signature, secret) ==
    IF ~secret THEN FALSE ELSE signature = "valid"

\* the switch on event.type
Dispatch(P, U, ev) ==
    CASE ev.type = "checkout.created"       -> handleCheckoutCreated(P, U, ev)
      [] ev.type = "checkout.updated"       -> handleCheckoutUpdated(P, U, ev)
      [] ev.type = "order.created"          -> handleOrderCreated(P, U, ev)
      [] ev.type = "subscription.created"   -> handleSubscriptionCreated(P, U, ev)
      [] ev.type = "subscription.updated"   -> handleSubscriptionUpdated(P, U, ev)
      [] ev.type = "subscription.canceled"  -> handleSubscriptionCanceled(P, U, ev)
      [] ev.type = "order.paid"             -> handleOrderPaid(P, U, ev)
      [] ev.type = "customer.created"       -> handleCustomerCreated(P, U, ev)
      [] ev.type = "customer.updated"       -> handleCustomerUpdated(P, U, ev)
      [] ev.type = "customer.state_changed" -> handleCustomerStateChanged(P, U, ev)
      [] ev.type = "refund.created"         -> handleRefundCreated(P, U, ev)
      [] ev.type = "order.updated"          -> handleOrderUpdated(P, U, ev)
      [] OTHER                              -> Begin(P, U)

Answer(P, U, calls, status) == [p |-> P, u |-> U, calls |-> calls, status |-> status]

\* res.json({ received: true }), or the outer catch: 500
Acknowledge(o) == Answer(o.p, o.u, o.calls, IF o.ok THEN 200 ELSE 500)

\* the route without its check that the secret is configured
PostPolar_noSecretGate(P, U, secret, ev, signature) ==
    IF ~verifyPolarWebhook(signature, secret) THEN Answer(P, U, {}, 401)
    ELSE Acknowledge(Dispatch(P, U, ev))

\* router.post('/polar'): secret gate, verification gate, switch, acknowledgment
PostPolar(P, U, secret, ev, signature) ==
    IF ~secret THEN Answer(P, U, {}, 500)
    ELSE IF ~verifyPolarWebhook(signature, secret) THEN Answer(P, U, {}, 401)
    ELSE Acknowledge(Dispatch(P, U, ev))

\* one delivery: the answer is recorded with what was delivered
Record(a, ev, signature) ==
    /\ payments' = a.p
    /\ users' = a.u
    /\ effects' = a.calls
    /\ response' = a.status
    /\ lastEvent' = ev
    /\ lastSignature' = signature
    /\ redelivered' = (webhookSecret /\ signature = "valid" /\ lastSignature = "valid"
                       /\ ev = lastEvent)
    /\ deliveries' = deliveries + 1
    /\ UNCHANGED <<webhookSecret, inflight>>

Deliver(ev, signature) ==
    Record(PostPolar(payments, users, webhookSecret, ev, signature), ev, signature)

\* the seed script's sampleUsers: registered by email, one free and one pro
SeededUsers ==
    << [NewUser("a@x.com", NoVal) EXCEPT !.subscriptionStatus = "free"],
       [NewUser("b@x.com", NoVal) EXCEPT !.subscriptionStatus = "pro"] >>

\* an empty database, or one the seed script has filled
Init ==
    /\ payments = <<>>
    /\ users \in {<<>>, SeededUsers}
    /\ webhookSecret \in BOOLEAN
    /\ lastEvent = NoEvent
    /\ lastSignature = "valid"
    /\ response = 0
    /\ effects = {}
    /\ redelivered = FALSE
    /\ deliveries = 0
    /\ inflight = [slot \in Slots |-> Idle]

Budget == deliveries < MaxDeliveries

CheckoutCreated      == \E ev \in CheckoutCreatedEvents : Budget /\ Deliver(ev, "valid")
CheckoutUpdated      == \E ev \in CheckoutUpdatedEvents : Budget /\ Deliver(ev, "valid")
OrderCreated         == \E ev \in OrderCreatedEvents : Budget /\ Deliver(ev, "valid")
OrderPaid            == \E ev \in OrderPaidEvents : Budget /\ Deliver(ev, "valid")
OrderUpdated         == \E ev \in OrderUpdatedEvents : Budget /\ Deliver(ev, "valid")
SubscriptionCreated  == \E ev \in SubscriptionCreatedEvents : Budget /\ Deliver(ev, "valid")
SubscriptionUpdated  == \E ev \in SubscriptionUpdatedEvents : Budget /\ Deliver(ev, "valid")
SubscriptionCanceled == \E ev \in SubscriptionCanceledEvents : Budget /\ Deliver(ev, "valid")
CustomerCreated      == \E ev \in CustomerCreatedEvents : Budget /\ Deliver(ev, "valid")
CustomerUpdated      == \E ev \in CustomerUpdatedEvents : Budget /\ Deliver(ev, "valid")
CustomerStateChanged == \E ev \in CustomerStateChangedEvents : Budget /\ Deliver(ev, "valid")
RefundCreated        == \E ev \in RefundEvents : Budget /\ Deliver(ev, "valid")
Unhandled            == \E ev \in UnhandledEvents : Budget /\ Deliver(ev, "valid")

\* a delivery that is not the provider's: a checkout, an order or a refund about
\* the first object of its kind, with a bad or an absent signature
ForgedEvents ==
    { e \in CheckoutCreatedEvents \cup OrderCreatedEvents \cup RefundEvents :
        /\ e.id \in {"co_1", "ord_1", "ref_1"}
        /\ e.revoke \/ (e.email # NoVal /\ e.ext = NoVal /\ e.cust # NoVal) }
Unverified ==
    \E ev \in ForgedEvents, sig \in Signatures \ {"valid"} : Budget /\ Deliver(ev, sig)

Next ==
    \/ CheckoutCreated
    \/ CheckoutUpdated
    \/ OrderCreated
    \/ OrderPaid
    \/ OrderUpdated
    \/ SubscriptionCreated
    \/ SubscriptionUpdated
    \/ SubscriptionCanceled
    \/ CustomerCreated
    \/ CustomerUpdated
    \/ CustomerStateChanged
    \/ RefundCreated
    \/ Unhandled
    \/ Unverified

Spec == Init /\ [][Next]_vars

(***************************************************************************)
(* The life of one order, followed further: the events about checkout     *)
(* co_1, its order ord_1 and the refund ref_1 of that order.              *)
(***************************************************************************)
MaxLifecycle == 5

OneOrder(events) == { e \in events : e.id \in {"co_1", "ord_1", "ref_1"} }

LifecycleBudget == deliveries < MaxLifecycle

LifecycleCheckoutCreated ==
    \E ev \in OneOrder(CheckoutCreatedEvents) : LifecycleBudget /\ Deliver(ev, "valid")
LifecycleCheckoutUpdated ==
    \E ev \in OneOrder(CheckoutUpdatedEvents) : LifecycleBudget /\ Deliver(ev, "valid")
LifecycleOrderCreated ==
    \E ev \in OneOrder(OrderCreatedEvents) : LifecycleBudget /\ Deliver(ev, "valid")
LifecycleOrderPaid ==
    \E ev \in OneOrder(OrderPaidEvents) : LifecycleBudget /\ Deliver(ev, "valid")
LifecycleRefundCreated ==
    \E ev \in OneOrder(RefundEvents) : LifecycleBudget /\ Deliver(ev, "valid")

LifecycleNext ==
    \/ LifecycleCheckoutCreated
    \/ LifecycleCheckoutUpdated
    \/ LifecycleOrderCreated
    \/ LifecycleOrderPaid
    \/ LifecycleRefundCreated

LifecycleSpec == Init /\ [][LifecycleNext]_vars

(***************************************************************************)
(* Collaborators that fail.  The handlers call the provider's orders API   *)
(* (generateInvoice, invoice) and the email service (sendInvoiceEmail,     *)
(* sendRefundEmail); `down` names the one whose call rejects, "none" when  *)
(* all of them answer.  A rejected call is recorded as <<"failed", name>>. *)
(***************************************************************************)
Collaborators == {"generateInvoice", "invoice", "sendInvoiceEmail", "sendRefundEmail"}

Failed(s, name) == [s EXCEPT !.calls = @ \cup {<<"failed", name>>}]

\* lines 299-310: the rejection is caught and logged
orderCreatedInvoiceWhen(s, d, down) ==
    IF s.ok /\ down = "generateInvoice"
    THEN Failed(orderCreatedInvoice(s, d), "generateInvoice")
    ELSE orderCreatedInvoice(s, d)

handleOrderCreatedWhen(P, U, d, down) ==
    orderCreatedInvoiceWhen(
      orderCreatedUser(
        orderCreatedPayment(Begin(P, U), d, PaymentByCheckout(P, d.checkout)), d), d, down)

\* lines 508-530: a rejected invoice fetch skips the email; both rejections are
\* caught by the one catch
orderUpdatedInvoiceWhen(s, d, i, down) ==
    IF d.status # "invoice" THEN s
    ELSE IF down = "invoice"
    THEN Failed([s EXCEPT !.calls = {<<"invoice", d.id>>}], "invoice")
    ELSE IF down = "sendInvoiceEmail" /\ i # 0 /\ s.p[i].customerEmail # NoVal
    THEN Failed(orderUpdatedInvoice(s, d, i), "sendInvoiceEmail")
    ELSE orderUpdatedInvoice(s, d, i)

handleOrderUpdatedWhen(P, U, d, down) ==
    orderUpdatedInvoiceWhen(Begin(P, U), d, PaymentByOrder(P, d.id), down)

\* lines 571-580: the call is awaited outside any try/catch of the handler, so
\* its rejection leaves the handler as an exception
refundCreatedEmailWhen(s, d, down) ==
    IF down = "sendRefundEmail" /\ s.ok /\ s.payment # 0
       /\ s.p[s.payment].customerEmail # NoVal
    THEN [Failed(refundCreatedEmail(s, d), "sendRefundEmail") EXCEPT !.ok = FALSE]
    ELSE refundCreatedEmail(s, d)

handleRefundCreatedWhen(P, U, d, down) ==
    refundCreatedEmailWhen(
      refundCreatedUser(
        refundCreatedPayment(Begin(P, U), d, PaymentByOrder(P, d.order)), d), d, down)

DispatchWhen(P, U, ev, down) ==
    CASE ev.type = "order.created"  -> handleOrderCreatedWhen(P, U, ev, down)
      [] ev.type = "order.updated"  -> handleOrderUpdatedWhen(P, U, ev, down)
      [] ev.type = "refund.created" -> handleRefundCreatedWhen(P, U, ev, down)
      [] OTHER                      -> Dispatch(P, U, ev)

PostPolarWhen(P, U, secret, ev, signature, down) ==
    IF ~secret THEN Answer(P, U, {}, 500)
    ELSE IF ~verifyPolarWebhook(signature, secret) THEN Answer(P, U, {}, 401)
    ELSE Acknowledge(DispatchWhen(P, U, ev, down))

DeliverWhen(ev, down) ==
    Record(PostPolarWhen(payments, users, webhookSecret, ev, "valid", down), ev, "valid")

MaxCollaborator == 3

CollaboratorBudget == deliveries < MaxCollaborator

CollaboratorCheckoutCreated ==
    \E ev \in OneOrder(CheckoutCreatedEvents) :
        CollaboratorBudget /\ DeliverWhen(ev, "none")
CollaboratorOrderCreated ==
    \E ev \in OneOrder(OrderCreatedEvents), down \in {"none", "generateInvoice"} :
        CollaboratorBudget /\ DeliverWhen(ev, down)
CollaboratorOrderUpdated ==
    \E ev \in OneOrder(OrderUpdatedEvents), down \in {"none", "invoice", "sendInvoiceEmail"} :
        CollaboratorBudget /\ DeliverWhen(ev, down)
CollaboratorRefundCreated ==
    \E ev \in OneOrder(RefundEvents), down \in {"none", "sendRefundEmail"} :
        CollaboratorBudget /\ DeliverWhen(ev, down)

CollaboratorNext ==
    \/ CollaboratorCheckoutCreated
    \/ CollaboratorOrderCreated
    \/ CollaboratorOrderUpdated
    \/ CollaboratorRefundCreated

CollaboratorSpec == Init /\ [][CollaboratorNext]_vars

(***************************************************************************)
(* Checkouts whose amounts vary: data.amount (gross) ranges over 0..MaxAmount *)
(* and data.netAmount is absent or ranges over 0..data.amount.              *)
(***************************************************************************)
MaxAmount == 2
MaxAmountDeliveries == 2

\* <<gross, net>>
AmountPairs ==
    { a \in (0..MaxAmount) \X ({NoAmount} \cup (0..MaxAmount)) : a[2] <= a[1] }

AmountCheckoutEvents ==
    { [e EXCEPT !.amount = a[1], !.net = a[2]] :
        e \in { c \in EmailOnly(CheckoutCreatedEvents) : c.cust # NoVal },
        a \in AmountPairs }

AmountBudget == deliveries < MaxAmountDeliveries

AmountCheckoutCreated ==
    \E ev \in AmountCheckoutEvents : AmountBudget /\ Deliver(ev, "valid")

AmountNext == AmountCheckoutCreated

AmountSpec == Init /\ [][AmountNext]_vars

(***************************************************************************)
(* Two requests handled at once.  Node runs one handler until its next     *)
(* await, so the requests interleave between their store operations: each  *)
(* findOne and each save is one step, taken against the store as it is     *)
(* then, with the documents the request read earlier.                      *)
(***************************************************************************)
ConcurrentEvents ==
    { e \in EmailOnly(CheckoutCreatedEvents) : e.cust # NoVal }
    \cup EmailOnly(CustomerCreatedEvents)
    \cup EmailOnly(OrderCreatedEvents)

\* the handler's chain record, over the store as it is now
Resume(l) ==
    [p |-> payments, u |-> users, user |-> l.user, payment |-> l.payment,
     calls |-> l.calls, ok |-> l.ok]

\* the request goes on to pc, or its exception reaches the outer catch
Proceed(l, s, pc) ==
    IF ~s.ok
    THEN [l EXCEPT !.pc = "done", !.ok = FALSE, !.status = 500]
    ELSE [l EXCEPT !.pc = pc, !.user = s.user, !.payment = s.payment,
                   !.calls = s.calls,
                   !.status = IF pc = "done" THEN 200 ELSE 0]

\* a step's writes reach the store and the request moves on
Commit(slot, s, pc) ==
    /\ payments' = s.p
    /\ users' = s.u
    /\ inflight' = [inflight EXCEPT ![slot] = Proceed(@, s, pc)]
    /\ UNCHANGED <<webhookSecret, lastEvent, lastSignature, response, effects,
                   redelivered, deliveries>>

\* the request reads a document and keeps a copy
Keep(slot, l) ==
    /\ inflight' = [inflight EXCEPT ![slot] = l]
    /\ UNCHANGED <<payments, users, webhookSecret, lastEvent, lastSignature,
                   response, effects, redelivered, deliveries>>

\* lines 445-460 with the copy read earlier: !user.polarCustomerId is asked of it
customerCreatedUserSeen(s, d, userIdentifier, user, seenCustomer) ==
    IF user = 0 /\ userIdentifier # NoVal
    THEN AfterUserSave([s EXCEPT !.user = Len(s.u) + 1],
                       UserSave(s.u, 0, NewUser(userIdentifier, d.id)))
    ELSE IF user # 0 /\ seenCustomer = NoVal
    THEN AfterUserSave([s EXCEPT !.user = user],
                       UserSave(s.u, user, [s.u[user] EXCEPT !.polarCustomerId = d.id]))
    ELSE [s EXCEPT !.user = user]

\* lines 281-290 with the copy read earlier: includes() is asked of that copy,
\* and the save sends the push of the reference to the stored list
orderCreatedGrantSeen(s, d, user, tier, seen) ==
    IF user = 0 \/ tier = NoVal THEN [s EXCEPT !.user = user]
    ELSE AfterUserSave([s EXCEPT !.user = user],
           UserSave(s.u, user,
             [s.u[user] EXCEPT
                !.subscriptionStatus = tier,
                !.polarCustomerId = d.cust,
                !.payments = IF Includes(seen, s.payment) THEN @ ELSE Append(@, s.payment)]))

\* the route up to the handler's first findOne
ConcurrentReceive ==
    \E slot \in Slots, ev \in ConcurrentEvents :
        /\ inflight[slot].pc = "idle"
        /\ Keep(slot,
             IF ~webhookSecret
             THEN [Idle EXCEPT !.ev = ev, !.pc = "done", !.ok = FALSE, !.status = 500]
             ELSE IF ev.type = "order.created"
             THEN [Idle EXCEPT !.ev = ev, !.pc = "read",
                               !.found = PaymentByCheckout(payments, ev.checkout)]
             ELSE [Idle EXCEPT !.ev = ev, !.pc = "read",
                               !.found = UserByEmail(users, Or(ev.ext, ev.email)),
                               !.seenCustomer =
                                  IF UserByEmail(users, Or(ev.ext, ev.email)) = 0 THEN NoVal
                                  ELSE users[UserByEmail(users, Or(ev.ext, ev.email))]
                                         .polarCustomerId])

\* checkout.created, customer.created: the User is created or linked
ConcurrentUserSave ==
    \E slot \in Slots :
        LET l == inflight[slot]
        IN  /\ l.pc = "read"
            /\ l.ev.type \in {"checkout.created", "customer.created"}
            /\ IF l.ev.type = "checkout.created"
               THEN Commit(slot,
                      checkoutCreatedUser(Resume(l), l.ev, Or(l.ev.ext, l.ev.email), l.found),
                      "user")
               ELSE Commit(slot,
                      customerCreatedUserSeen(Resume(l), l.ev, Or(l.ev.ext, l.ev.email),
                                              l.found, l.seenCustomer),
                      "done")

\* checkout.created, order.created: the Payment is saved
ConcurrentPaymentSave ==
    \E slot \in Slots :
        LET l == inflight[slot]
        IN  \/ /\ l.pc = "user" /\ l.ev.type = "checkout.created"
               /\ Commit(slot,
                    checkoutCreatedPayment(Resume(l), l.ev, Or(l.ev.ext, l.ev.email)),
                    "payment")
            \/ /\ l.pc = "read" /\ l.ev.type = "order.created"
               /\ Commit(slot, orderCreatedPayment(Resume(l), l.ev, l.found), "payment")

\* checkout.created: the Payment is pushed to the User's list
ConcurrentLink ==
    \E slot \in Slots :
        LET l == inflight[slot]
        IN  /\ l.pc = "payment" /\ l.ev.type = "checkout.created"
            /\ Commit(slot, checkoutCreatedLink(Resume(l)), "done")

\* order.created: User.findOne by external id, email or the Payment's email
ConcurrentUserRead ==
    \E slot \in Slots :
        LET l == inflight[slot]
            user == UserByEmail(users,
                      Or(Or(l.ev.ext, l.ev.email), payments[l.payment].customerEmail))
        IN  /\ l.pc = "payment" /\ l.ev.type = "order.created"
            /\ Keep(slot, [l EXCEPT !.pc = "userread", !.found = user,
                                    !.seen = IF user = 0 THEN <<>> ELSE users[user].payments])

\* order.created: the grant, then the invoice request
ConcurrentGrant ==
    \E slot \in Slots :
        LET l == inflight[slot]
        IN  /\ l.pc = "userread" /\ l.ev.type = "order.created"
            /\ Commit(slot,
                 orderCreatedInvoice(
                   orderCreatedGrantSeen(Resume(l), l.ev, l.found,
                                         ProductTier(l.ev.product), l.seen), l.ev),
                 "done")

ConcurrentNext ==
    \/ ConcurrentReceive
    \/ ConcurrentUserSave
    \/ ConcurrentPaymentSave
    \/ ConcurrentLink
    \/ ConcurrentUserRead
    \/ ConcurrentGrant

ConcurrentSpec == Init /\ [][ConcurrentNext]_vars

(***************************************************************************)
(* Properties                                                              *)
(***************************************************************************)
Delivered == deliveries > 0
Verified  == webhookSecret /\ lastSignature = "valid"

\* C1: a delivery whose signature does not verify is answered 401, leaves every
\* Payment and User as it was, and reaches no handler (no collaborator is called).
C1_RejectedDeliveryChangesNothing ==
    [][ (webhookSecret /\ deliveries' # deliveries /\ lastSignature' # "valid")
        => /\ response' = 401
           /\ payments' = payments
           /\ users' = users
           /\ effects' = {} ]_vars

\* a forged refund arrived while a completed Payment for its order was stored
C1_Witness ==
    /\ webhookSecret /\ lastSignature # "valid" /\ response = 401
    /\ lastEvent.type = "refund.created"
    /\ \E i \in Indexes(payments) :
          payments[i].order_id = lastEvent.order /\ payments[i].status = "completed"

\* C2: every correctly signed event of a handled type is answered 200, whatever
\* was delivered before it.
C2_VerifiedHandledEventIsAcknowledged ==
    (Delivered /\ Verified /\ lastEvent \in HandledEvents) => response = 200

\* C6: no two Payments share a checkout identifier.
C6_CheckoutIdUnique ==
    \A i, j \in Indexes(payments) :
        payments[i].checkoutId = payments[j].checkoutId => i = j

\* subscription.created for a checkout whose Payment checkout.created had already
\* stored: the second insert under the same checkout id was refused
C6_Witness ==
    /\ Verified /\ lastEvent.type = "subscription.created" /\ response = 500
    /\ \E i \in Indexes(payments) :
          /\ payments[i].checkoutId = lastEvent.checkout
          /\ payments[i].eventType = "checkout.created"

\* C3: a Payment that is refunded stays refunded under every event that is not
\* a refund.
C3_RefundedIsFinal ==
    [][ \A i \in Indexes(payments) :
          (payments[i].status = "refunded" /\ lastEvent'.type # "refund.created")
          => payments'[i].status = "refunded" ]_vars

\* C4: when order.paid is delivered a second time for an order whose Payment is
\* stored, no Payment is added, exactly one Payment carries the order id, and it
\* is completed with eventType order.paid.
C4_OrderPaidTwice ==
    [][ (redelivered' /\ lastEvent'.type = "order.paid"
         /\ PaymentByOrder(payments, lastEvent'.id) # 0)
        => /\ Len(payments') = Len(payments)
           /\ Cardinality({ i \in Indexes(payments') :
                              payments'[i].order_id = lastEvent'.id }) = 1
           /\ \A i \in Indexes(payments') :
                payments'[i].order_id = lastEvent'.id
                => /\ payments'[i].status = "completed"
                   /\ payments'[i].eventType = "order.paid" ]_vars

C4_Witness ==
    /\ redelivered /\ lastEvent.type = "order.paid" /\ response = 200
    /\ \E i \in Indexes(payments) :
          /\ payments[i].order_id = lastEvent.id
          /\ payments[i].checkoutId = "co_1"
          /\ payments[i].eventType = "order.paid"

\* handling ev again after `once` leaves what `once` left
SameCollectionsAfter(once, twice) == twice.p = once.p /\ twice.u = once.u
SameCollections(once, ev) == SameCollectionsAfter(once, Dispatch(once.p, once.u, ev))

\* C5: in every reachable state, handling any handled event twice in succession
\* leaves the Payment and User collections as handling it once does.
C5_RedeliveryIsIdempotent ==
    \A ev \in HandledEvents :
        SameCollections(Dispatch(payments, users, ev), ev)

\* order.created was delivered twice and the user it resolved owns the Payment
C5_Witness ==
    /\ redelivered /\ lastEvent.type = "order.created" /\ response = 200
    /\ \E u \in Indexes(users) :
          /\ users[u].subscriptionStatus = "pro"
          /\ \E n \in 1..Len(users[u].payments) :
                payments[users[u].payments[n]].order_id = lastEvent.id

\* C7: a checkout.created event whose checkout id is not stored adds one pending
\* Payment and leaves the Payments stored before it as they were.
C7_NewCheckoutAddsPayment ==
    [][ (Verified' /\ deliveries' # deliveries /\ lastEvent'.type = "checkout.created"
         /\ PaymentByCheckout(payments, lastEvent'.id) = 0)
        => /\ Len(payments') = Len(payments) + 1
           /\ SubSeq(payments', 1, Len(payments)) = payments
           /\ payments'[Len(payments')].checkoutId = lastEvent'.id
           /\ payments'[Len(payments')].status = "pending" ]_vars

\* C8: order.paid for an order id that no Payment stores changes no Payment and
\* no User, and is answered 200.
C8_OrderPaidWithoutPayment ==
    [][ (Verified' /\ deliveries' # deliveries /\ lastEvent'.type = "order.paid"
         /\ PaymentByOrder(payments, lastEvent'.id) = 0)
        => /\ payments' = payments
           /\ users' = users
           /\ response' = 200 ]_vars

\* C9: refund.created with revokeBenefits for the order of a completed Payment
\* makes the Payment refunded and puts every User that owns the Payment back on
\* the free tier with subscription id and end date cleared.
C9_RevokingRefund ==
    [][ \A i \in Indexes(payments) :
          (Verified' /\ deliveries' # deliveries /\ lastEvent'.type = "refund.created"
           /\ lastEvent'.revoke /\ i = PaymentByOrder(payments, lastEvent'.order)
           /\ payments[i].status = "completed")
          => /\ payments'[i].status = "refunded"
             /\ \A u \in Indexes(users) :
                  Includes(users[u].payments, i)
                  => /\ users'[u].subscriptionStatus = "free"
                     /\ users'[u].subscriptionId = NoVal
                     /\ users'[u].subscriptionEndsAt = NoVal ]_vars

C11_OrderCompletesCheckoutPayment ==
    [][ \A i \in Indexes(payments) :
          (Verified' /\ deliveries' # deliveries /\ lastEvent'.type = "order.created"
           /\ i = PaymentByCheckout(payments, lastEvent'.checkout))
          => /\ Len(payments') = Len(payments)
             /\ payments'[i].status = "completed"
             /\ payments'[i].eventType = "order.created"
             /\ payments'[i].amount = lastEvent'.amount
             /\ payments'[i].order_id = lastEvent'.id
             /\ \A u \in Indexes(users) :
                  (/\ u = UserByEmail(users, Or(Or(lastEvent'.ext, lastEvent'.email),
                                                payments[i].customerEmail))
                   /\ ProductTier(lastEvent'.product) # NoVal)
                  => users'[u].subscriptionStatus = ProductTier(lastEvent'.product) ]_vars

\* C12: order.created for a checkout id that no Payment stores adds a completed
\* Payment under that checkout id, and a checkout.created that arrives for a
\* checkout id whose Payment is stored adds no Payment and leaves the stored
\* Payments, that one included, exactly as they were.
C12_OutOfOrderIsAbsorbed ==
    [][ (Verified' /\ deliveries' # deliveries)
        => /\ (/\ lastEvent'.type = "order.created"
               /\ lastEvent'.checkout # NoVal
               /\ PaymentByCheckout(payments, lastEvent'.checkout) = 0)
              => /\ Len(payments') = Len(payments) + 1
                 /\ SubSeq(payments', 1, Len(payments)) = payments
                 /\ payments'[Len(payments')].checkoutId = lastEvent'.checkout
                 /\ payments'[Len(payments')].status = "completed"
           /\ (/\ lastEvent'.type = "checkout.created"
               /\ PaymentByCheckout(payments, lastEvent'.id) # 0)
              => payments' = payments ]_vars

\* order.created came first and stored the completed Payment; the checkout.created
\* that followed for the same checkout left it the only Payment, still completed
C12_Witness ==
    /\ Verified /\ lastEvent.type = "checkout.created" /\ deliveries = MaxDeliveries
    /\ Len(payments) = 1
    /\ payments[1].checkoutId = lastEvent.id
    /\ payments[1].eventType = "order.created"
    /\ payments[1].status = "completed"

\* the delivery carries the checkout id cid: as its own id or as its checkoutId
References(ev, cid) == ev.id = cid \/ ev.checkout = cid

\* C13: a pending Payment stored by checkout.created is still pending after
\* every verified event that does not reference its checkout id.
C13_AbandonedCheckoutStaysPending ==
    [][ \A i \in Indexes(payments) :
          (/\ Verified' /\ deliveries' # deliveries
           /\ payments[i].status = "pending"
           /\ payments[i].eventType = "checkout.created"
           /\ ~References(lastEvent', payments[i].checkoutId))
          => payments'[i].status = "pending" ]_vars

\* an abandoned checkout, and after it a completed Payment of another checkout
\* of the same email
C13_Witness ==
    /\ Verified /\ response = 200 /\ lastEvent.type = "order.created"
    /\ \E i, j \in Indexes(payments) :
          /\ i < j
          /\ payments[i].status = "pending"
          /\ payments[i].eventType = "checkout.created"
          /\ ~References(lastEvent, payments[i].checkoutId)
          /\ payments[j].status = "completed"
          /\ payments[j].customerEmail = payments[i].customerEmail
          /\ payments[i].customerEmail # NoVal

\* C14: checkout.created that carries an email no User has (and no external id)
\* and a checkout id no Payment has adds a pending Payment with eventType
\* checkout.created and a User with that email on the free tier, whose owned
\* list holds the new Payment.
C14_FirstCheckoutCreatesPaymentAndUser ==
    [][ (/\ Verified' /\ deliveries' # deliveries
         /\ lastEvent'.type = "checkout.created"
         /\ lastEvent'.ext = NoVal /\ lastEvent'.email # NoVal
         /\ PaymentByCheckout(payments, lastEvent'.id) = 0
         /\ UserByEmail(users, lastEvent'.email) = 0)
        => /\ Len(payments') = Len(payments) + 1
           /\ payments'[Len(payments')].checkoutId = lastEvent'.id
           /\ payments'[Len(payments')].status = "pending"
           /\ payments'[Len(payments')].eventType = "checkout.created"
           /\ Len(users') = Len(users) + 1
           /\ users'[Len(users')].email = Lower(lastEvent'.email)
           /\ users'[Len(users')].subscriptionStatus = "free"
           /\ Includes(users'[Len(users')].payments, Len(payments')) ]_vars

\* C15: after a verified checkout.created, order.created or customer.created
\* that carries an identifier (external id, else email), a User keyed by that
\* identifier is stored: found, or created by that event.
C15_UserCreatedLazily ==
    [][ (/\ Verified' /\ deliveries' # deliveries
         /\ lastEvent'.type \in {"checkout.created", "order.created", "customer.created"}
         /\ Or(lastEvent'.ext, lastEvent'.email) # NoVal)
        => UserByEmail(users', Or(lastEvent'.ext, lastEvent'.email)) # 0 ]_vars

\* the events whose handler finds its User through the identifier chain
IdentifierEvents ==
    CheckoutCreatedEvents \cup OrderCreatedEvents \cup OrderPaidEvents \cup
    SubscriptionCreatedEvents \cup CustomerCreatedEvents \cup
    { e \in RefundEvents : e.revoke }

\* the Payment a delivery refers to, once the delivery has been handled
ReferredPayment(P, ev) ==
    CASE ev.type = "checkout.created"     -> PaymentByCheckout(P, ev.id)
      [] ev.type = "order.created"        -> PaymentByCheckout(P, Or(ev.checkout, ev.id))
      [] ev.type = "order.paid"           -> PaymentByOrder(P, ev.id)
      [] ev.type = "subscription.created" -> PaymentBySubscription(P, ev.id)
      [] ev.type = "refund.created"       -> PaymentByOrder(P, ev.order)
      [] OTHER                            -> 0

\* the documented order: external id, then email, then that Payment's stored email
DocumentedKey(P, ev) ==
    Or(Or(ev.ext, ev.email),
       IF ReferredPayment(P, ev) = 0 THEN NoVal
       ELSE P[ReferredPayment(P, ev)].customerEmail)

\* C16: in every reachable state, a handler that resolves a User and completes
\* holds the User stored under the first non-empty of: the event's external
\* id, the event's email, the stored email of the Payment the event refers to.
C16_LookupKeyFollowsDocumentedOrder ==
    \A ev \in IdentifierEvents :
        LET o == Dispatch(payments, users, ev)
        IN  o.ok => o.user = UserByEmail(o.u, DocumentedKey(o.p, ev))

GrantingTypes ==
    {"order.created", "order.paid", "subscription.created", "subscription.updated"}

\* the delivery takes benefits away: a cancellation, or a refund that revokes
Revoking(ev) ==
    ev.type = "subscription.canceled" \/ (ev.type = "refund.created" /\ ev.revoke)

\* C17: whenever the tier of a stored User changes, either the event is an
\* order or subscription event whose product id names a Product and the new
\* tier is that Product's tier, or the event is a cancellation or a revoking
\* refund and the new tier is free. With an unknown product id no tier changes.
C17_TierComesFromProduct ==
    [][ \A u \in Indexes(users) :
          users'[u].subscriptionStatus # users[u].subscriptionStatus
          => \/ /\ lastEvent'.type \in GrantingTypes
                /\ ProductTier(lastEvent'.product) # NoVal
                /\ users'[u].subscriptionStatus = ProductTier(lastEvent'.product)
             \/ /\ Revoking(lastEvent')
                /\ users'[u].subscriptionStatus = "free" ]_vars

\* an order for a product the catalog does not know was handled for a User
\* who is stored, and that User is still on the tier it had
C17_Witness ==
    /\ Verified /\ response = 200
    /\ lastEvent.type \in {"order.created", "order.paid"}
    /\ ProductTier(lastEvent.product) = NoVal
    /\ UserByEmail(users, Or(lastEvent.ext, lastEvent.email)) # 0
    /\ users[UserByEmail(users, Or(lastEvent.ext, lastEvent.email))].subscriptionStatus = "pro"

\* C18: in every reachable state no User's owned list holds the same Payment
\* reference at two positions.
C18_OwnedListHasNoDuplicates ==
    \A u \in Indexes(users) :
        \A m, n \in 1..Len(users[u].payments) :
            users[u].payments[m] = users[u].payments[n] => m = n

\* checkout.created stored the Payment (it carries no customer id) and linked it
\* to the User it created; the order.created that followed resolved the same
\* User and found the reference already in the list
C18_Witness ==
    /\ Verified /\ response = 200 /\ lastEvent.type = "order.created"
    /\ Len(users) = 1 /\ Len(payments) = 1
    /\ payments[1].order_id = lastEvent.id
    /\ payments[1].customerId = NoVal
    /\ UserByEmail(users, Or(lastEvent.ext, lastEvent.email)) = 1
    /\ users[1].payments = <<1>>

\* what a user-creating handler does about its User, before anything else
UserStep(P, U, ev) ==
    IF ev.type = "checkout.created"
    THEN checkoutCreatedUser(Begin(P, U), ev, Or(ev.ext, ev.email),
                             UserByEmail(U, Or(ev.ext, ev.email)))
    ELSE handleCustomerCreated(P, U, ev)

\* no two Users share an email once letter case is normalised
NoTwoUsersShareEmail ==
    \A i, j \in Indexes(users) :
        Lower(users[i].email) = Lower(users[j].email) => i = j

\* C19: in every reachable state no two Users share a normalised email, and a
\* checkout.created or customer.created whose identifier equals the email of a
\* stored User up to letter case attaches to that User: it raises no error and
\* stores no second User.
C19_UserCreationIsIdempotent ==
    /\ NoTwoUsersShareEmail
    /\ \A ev \in CheckoutCreatedEvents \cup CustomerCreatedEvents :
          UserByEmail(users, Or(ev.ext, ev.email)) # 0
          => LET o == UserStep(payments, users, ev)
             IN  /\ o.ok
                 /\ o.user = UserByEmail(users, Or(ev.ext, ev.email))
                 /\ Len(o.u) = Len(users)

\* a collaborator call made for the most recent delivery was rejected
CollaboratorFailed(calls) == \E c \in Collaborators : <<"failed", c>> \in calls

OrderCompleted(P, id) ==
    \E i \in Indexes(P) : P[i].order_id = id /\ P[i].status = "completed"

\* C21: the generate-invoice operation is invoked for an order only by a delivery
\* that completes the order's Payment (it was not stored as completed before),
\* and never by two successive deliveries for the same order id.
C21_InvoiceOncePerOrder ==
    [][ \A id \in OrderIds :
          (deliveries' # deliveries /\ <<"generateInvoice", id>> \in effects')
          => /\ OrderCompleted(payments', id)
             /\ ~OrderCompleted(payments, id)
             /\ <<"generateInvoice", id>> \notin effects ]_vars

\* C22: after a verified refund.created is applied to the Payment that stores its
\* order id, the Payment's status is refunded, its eventType is the refund
\* event's type, and the refund's id and amount are stored in its metadata.
C22_RefundIsRecordedWithProvenance ==
    [][ \A i \in Indexes(payments) :
          (Verified' /\ deliveries' # deliveries /\ lastEvent'.type = "refund.created"
           /\ i = PaymentByOrder(payments, lastEvent'.order))
          => /\ payments'[i].status = "refunded"
             /\ payments'[i].eventType = lastEvent'.type
             /\ payments'[i].refund_id = lastEvent'.id
             /\ payments'[i].refund_amount = lastEvent'.amount ]_vars

\* C23: a verified checkout.updated leaves the number of Payments as it was;
\* the Payment stored under its checkout id gets status completed when the
\* provider status is confirmed and keeps its status otherwise.
C23_CheckoutUpdatedStatus ==
    [][ (Verified' /\ deliveries' # deliveries /\ lastEvent'.type = "checkout.updated")
        => /\ Len(payments') = Len(payments)
           /\ \A i \in Indexes(payments) :
                payments'[i].status =
                  IF i = PaymentByCheckout(payments, lastEvent'.id)
                     /\ lastEvent'.status = "confirmed"
                  THEN "completed" ELSE payments[i].status ]_vars

\* a checkout.updated with a provider status other than confirmed was applied to
\* a stored Payment, which is still pending
C23_Witness ==
    /\ Verified /\ response = 200
    /\ lastEvent.type = "checkout.updated" /\ lastEvent.status # "confirmed"
    /\ \E i \in Indexes(payments) :
          /\ payments[i].checkoutId = lastEvent.id
          /\ payments[i].checkout_status = lastEvent.status
          /\ payments[i].status = "pending"

\* C24: a verified refund.created leaves the amount of every Payment as it was
\* immediately before; the refunded amount is stored in the metadata of the
\* Payment that records the refunded order.
C24_RefundKeepsAmount ==
    [][ (Verified' /\ deliveries' # deliveries /\ lastEvent'.type = "refund.created")
        => /\ Len(payments') = Len(payments)
           /\ \A i \in Indexes(payments) :
                /\ payments'[i].amount = payments[i].amount
                /\ i = PaymentByOrder(payments, lastEvent'.order)
                   => payments'[i].refund_amount = lastEvent'.amount ]_vars

\* a partial refund was applied: the Payment is refunded, holds the refunded
\* amount in its metadata and still shows the larger amount of the sale
C24_Witness ==
    /\ Verified /\ response = 200 /\ lastEvent.type = "refund.created"
    /\ \E i \in Indexes(payments) :
          /\ payments[i].order_id = lastEvent.order
          /\ payments[i].status = "refunded"
          /\ payments[i].refund_amount = lastEvent.amount
          /\ payments[i].amount > lastEvent.amount

\* C25: a verified checkout.created that carries both a net and a gross amount
\* and adds a Payment stores the net amount as the Payment's amount and the
\* gross amount as its originalAmount, a net amount of 0 included.
C25_NetIsAuthoritative ==
    [][ (Verified' /\ deliveries' # deliveries /\ lastEvent'.type = "checkout.created"
         /\ lastEvent'.net # NoAmount /\ lastEvent'.amount # NoAmount
         /\ Len(payments') = Len(payments) + 1)
        => /\ payments'[Len(payments')].amount = lastEvent'.net
           /\ payments'[Len(payments')].originalAmount = lastEvent'.amount ]_vars

\* C26: a verified subscription.updated leaves every Payment as it was; a
\* verified subscription.canceled leaves the status, eventType and amount of
\* every Payment as they were and changes no Payment other than the one that
\* stores the subscription id.
C26_SubscriptionEventsKeepPayments ==
    [][ (Verified' /\ deliveries' # deliveries
         /\ lastEvent'.type \in {"subscription.updated", "subscription.canceled"})
        => /\ Len(payments') = Len(payments)
           /\ lastEvent'.type = "subscription.updated" => payments' = payments
           /\ \A i \in Indexes(payments) :
                /\ payments'[i].status = payments[i].status
                /\ payments'[i].eventType = payments[i].eventType
                /\ payments'[i].amount = payments[i].amount
                /\ i # PaymentBySubscription(payments, lastEvent'.id)
                   => payments'[i] = payments[i] ]_vars

\* a cancellation was written to the metadata of the Payment of its
\* subscription, whose status is still completed
C26_Witness ==
    /\ Verified /\ response = 200 /\ lastEvent.type = "subscription.canceled"
    /\ \E i \in Indexes(payments) :
          /\ payments[i].subscription_id = lastEvent.id
          /\ payments[i].subscription_status = "canceled"
          /\ payments[i].status = "completed"

\* the delivery finds no User: a creating handler has no identifier to create
\* one from, a subscription handler finds no holder of the subscription id, and
\* any other handler finds no User under the documented key
ResolutionMiss(P, U, ev) ==
    CASE ev.type \in {"checkout.created", "customer.created"}
           -> Or(ev.ext, ev.email) = NoVal
      [] ev.type \in {"subscription.updated", "subscription.canceled"}
           -> UserBySubscription(U, ev.id) = 0
      [] ev.type \in {"order.created", "order.paid", "subscription.created"}
           -> UserByEmail(U, DocumentedKey(P, ev)) = 0
      [] ev.type = "refund.created"
           -> ev.revoke /\ UserByEmail(U, DocumentedKey(P, ev)) = 0
      [] OTHER -> FALSE

\* the Payment the delivery would insert has a checkout id that is already stored
InsertCollides(P, ev) ==
    CASE ev.type = "checkout.created" -> PaymentByCheckout(P, ev.id) # 0
      [] ev.type = "order.created"
           -> ev.checkout = NoVal /\ PaymentByCheckout(P, ev.id) # 0
      [] ev.type = "subscription.created"
           -> PaymentByCheckout(P, Or(ev.checkout, ev.id)) # 0
      [] OTHER -> FALSE

\* the Payment-side effect of the delivery is in place
PaymentEffectApplied(P, Q, ev) ==
    CASE ev.type = "checkout.created"
           -> Len(Q) = Len(P) + 1 /\ Q[Len(Q)].checkoutId = ev.id
              /\ Q[Len(Q)].status = "pending"
      [] ev.type = "order.created" -> OrderCompleted(Q, ev.id)
      [] ev.type = "order.paid"
           -> PaymentByOrder(P, ev.id) # 0
              => /\ Q[PaymentByOrder(P, ev.id)].status = "completed"
                 /\ Q[PaymentByOrder(P, ev.id)].paid
      [] ev.type = "subscription.created"
           -> Len(Q) = Len(P) + 1 /\ Q[Len(Q)].subscription_id = ev.id
      [] ev.type = "subscription.canceled"
           -> PaymentBySubscription(P, ev.id) # 0
              => Q[PaymentBySubscription(P, ev.id)].subscription_status = "canceled"
      [] ev.type = "refund.created"
           -> PaymentByOrder(P, ev.order) # 0
              => Q[PaymentByOrder(P, ev.order)].status = "refunded"
      [] OTHER -> Q = P

C28_MissingSecretIsFatal ==
    [][ (~webhookSecret /\ deliveries' # deliveries)
        => /\ response' = 500
           /\ payments' = payments
           /\ users' = users
           /\ effects' = {} ]_vars

\* without a secret, a delivery with a bad or absent signature was answered
\* 500 after a first delivery, and the seeded Users are all that is stored
C28_Witness ==
    /\ ~webhookSecret /\ deliveries = MaxDeliveries
    /\ lastSignature # "valid" /\ response = 500
    /\ payments = <<>> /\ users = SeededUsers

\* the stored User a tier-granting delivery resolves to by what the event itself
\* carries: the subscription id, or the external id and else the email
GrantedUser(U, ev) ==
    IF ev.type = "subscription.updated" THEN UserBySubscription(U, ev.id)
    ELSE UserByEmail(U, Or(ev.ext, ev.email))

\* the stored Users a delivery takes benefits from: the holder of the canceled
\* subscription, the owners of the Payment of the refunded order
RevokedUsers(P, U, ev) ==
    { u \in Indexes(U) :
        \/ ev.type = "subscription.canceled" /\ u = UserBySubscription(U, ev.id)
        \/ /\ ev.type = "refund.created" /\ ev.revoke
           /\ PaymentByOrder(P, ev.order) # 0
           /\ Includes(U[u].payments, PaymentByOrder(P, ev.order)) }

\* C29: after a verified delivery answered 200, the User a tier-granting event
\* with a catalog product resolves to is on that Product's tier, and every User
\* a cancellation or a benefit-revoking refund is about is on the free tier.
C29_TierFollowsLastGrantOrRevocation ==
    [][ (Verified' /\ deliveries' # deliveries /\ response' = 200)
        => \A u \in Indexes(users) :
             /\ (/\ lastEvent'.type \in GrantingTypes
                 /\ ProductTier(lastEvent'.product) # NoVal
                 /\ u = GrantedUser(users, lastEvent'))
                => users'[u].subscriptionStatus = ProductTier(lastEvent'.product)
             /\ u \in RevokedUsers(payments, users, lastEvent')
                => users'[u].subscriptionStatus = "free" ]_vars

\* C30: in every reachable state, no two stored Users hold the same provider
\* customer identifier.
C30_CustomerIdUnique ==
    \A i, j \in Indexes(users) :
        (users[i].polarCustomerId # NoVal
         /\ users[i].polarCustomerId = users[j].polarCustomerId) => i = j

\* a handler has linked the customer id of its event to one of several stored
\* Users, after an earlier delivery
C30_Witness ==
    /\ Verified /\ response = 200 /\ deliveries = MaxDeliveries
    /\ lastEvent.type \in {"checkout.created", "order.created", "order.paid",
                           "subscription.created", "customer.created"}
    /\ Len(users) >= 2
    /\ \E u \in Indexes(users) :
          /\ users[u].polarCustomerId # NoVal
          /\ users[u].polarCustomerId = Or(lastEvent.cust, lastEvent.id)

\* the User a benefit-revoking refund of order id has put on the free tier: the
\* one stored under the email of the order's refunded Payment
RefundRevoked(P, U, id) ==
    IF PaymentByOrder(P, id) = 0 THEN 0
    ELSE IF P[PaymentByOrder(P, id)].status # "refunded" THEN 0
    ELSE UserByEmail(U, P[PaymentByOrder(P, id)].customerEmail)

\* C31: when a verified benefit-revoking refund has just put a User on the free
\* tier, a verified order.created or order.paid that follows for the refunded
\* order leaves that User on the free tier.
C31_LateOrderEventDoesNotRegrant ==
    [][ \A u \in Indexes(users) :
          (/\ Verified /\ response = 200
           /\ lastEvent.type = "refund.created" /\ lastEvent.revoke
           /\ u = RefundRevoked(payments, users, lastEvent.order)
           /\ users[u].subscriptionStatus = "free"
           /\ deliveries' # deliveries
           /\ lastEvent'.type \in {"order.created", "order.paid"}
           /\ lastEvent'.id = lastEvent.order)
          => users'[u].subscriptionStatus = "free" ]_vars

\* C32: a verified delivery that is answered 500 leaves every Payment and every
\* User exactly as it was before the delivery.
C32_FailedDeliveryChangesNothing ==
    [][ (Verified' /\ deliveries' # deliveries /\ response' = 500)
        => /\ payments' = payments
           /\ users' = users ]_vars

\* both requests have been answered
BothDone == \A slot \in Slots : inflight[slot].pc = "done"

\* the Users stored under the email a user-creating event resolves to
UsersFor(ev) ==
    { u \in Indexes(users) : users[u].email = Lower(Or(ev.ext, ev.email)) }

\* C33: when two verified checkout.created / customer.created requests resolve
\* to the same email, both looked it up while no User was stored under it, and
\* both have been answered, exactly one User is stored under that email and
\* both requests were answered 200.
C33_ConcurrentUserCreation ==
    (/\ BothDone /\ webhookSecret
     /\ \A slot \in Slots :
          /\ inflight[slot].ev.type \in {"checkout.created", "customer.created"}
          /\ inflight[slot].found = 0
     /\ Lower(inflight["A"].ev.email) = Lower(inflight["B"].ev.email))
    => /\ Cardinality(UsersFor(inflight["A"].ev)) = 1
       /\ \A slot \in Slots : inflight[slot].status = 200

\* list holds id more than once
HoldsTwice(list, id) ==
    \E m, n \in 1..Len(list) : m # n /\ list[m] = id /\ list[n] = id

\* C34: when two verified order.created requests for the same checkout id have
\* both been answered, at most one Payment is stored under that checkout id
\* and no User's owned list holds that Payment more than once.
C34_ConcurrentOrderCreated ==
    (/\ BothDone /\ webhookSecret
     /\ \A slot \in Slots : inflight[slot].ev.type = "order.created"
     /\ inflight["A"].ev.checkout # NoVal
     /\ inflight["A"].ev.checkout = inflight["B"].ev.checkout)
    => /\ Cardinality({ i \in Indexes(payments) :
                          payments[i].checkoutId = inflight["A"].ev.checkout }) <= 1
       /\ \A u \in Indexes(users), i \in Indexes(payments) :
            payments[i].checkoutId = inflight["A"].ev.checkout
            => ~HoldsTwice(users[u].payments, i)

\* C35: in every reachable state a pending Payment has eventType
\* checkout.created, and a refunded Payment stores an order id and a refund id.
C35_StatusMatchesProvenance ==
    \A i \in Indexes(payments) :
        /\ payments[i].status = "pending" => payments[i].eventType = "checkout.created"
        /\ payments[i].status = "refunded"
           => payments[i].order_id # NoVal /\ payments[i].refund_id # NoVal

\* a refund was applied to the Payment of a checkout that started as pending
C35_Witness ==
    /\ Verified /\ response = 200 /\ lastEvent.type = "refund.created"
    /\ \E i \in Indexes(payments) :
          /\ payments[i].status = "refunded"
          /\ payments[i].checkoutId \in CheckoutIds
          /\ payments[i].order_id = lastEvent.order
          /\ payments[i].refund_id = lastEvent.id

\* C36: in every reachable state the status of every stored Payment is pending,
\* completed or refunded, never failed.
C36_NoPaymentFails ==
    \A i \in Indexes(payments) :
        payments[i].status \in {"pending", "completed", "refunded"}

\* a checkout.updated whose provider status is not confirmed reached a Payment
\* that an order had completed, and the Payment is still completed
C36_Witness ==
    /\ Verified /\ response = 200
    /\ lastEvent.type = "checkout.updated" /\ lastEvent.status = "open"
    /\ \E i \in Indexes(payments) :
          /\ payments[i].checkoutId = lastEvent.id
          /\ payments[i].checkout_status = "open"
          /\ payments[i].order_id # NoVal
          /\ payments[i].status = "completed"

====
